---- MODULE Spec2Model ----
(***************************************************************************)
(* Conway's Game of Life on a torus, as implemented in src/src/main.rs:    *)
(* a bit-packed, double-buffered grid (cells / next_cells) with a sparse   *)
(* age map (cell_ages).                                                    *)
(*                                                                         *)
(* The source fixes GRID_WIDTH = GRID_HEIGHT = 100 and packs 64 cells per  *)
(* u64 word.  The model keeps the code's arithmetic but takes the grid     *)
(* dimensions from small sets and packs WORD_BITS cells per word, so that  *)
(* small grids still span several words and leave padding bits in the      *)
(* last one.                                                               *)
(***************************************************************************)
EXTENDS Integers, Sequences, FiniteSets, TLC

\* ------------------------------------------------------------- bounds
\* Bits per word of the packed buffers (64 in the source).
WORD_BITS == 4
\* Largest grid side and largest number of cells of the exhaustive grids.
MaxDim == 4
MaxCells == 9
\* Number of generations a run is followed for.
MaxGen == 2
\* Largest grid side for the block and blinker runs.
MaxPatternDim == 5
\* Largest number of cells of the grids on which every visiting order of a
\* pass is tried.
MaxOrderCells == 4
\* Largest age calculate_color is called with on its own.
MaxAge == 12

VARIABLES
    GRID_WIDTH,     \* main.rs:15
    GRID_HEIGHT,    \* main.rs:16
    cells,          \* Game.cells: word index -> word
    next_cells,     \* Game.next_cells
    cell_ages,      \* Game.cell_ages: <<x, y>> -> age, defined on its keys only
    pc,             \* position in the event loop / in update_game_state
    loop_x,         \* x of the cell the pass is at
    loop_y,         \* y of the cell the pass is at
    next_state,     \* the local next_state of the loop body
    seed,           \* history: cells as Game::new returned them
    gens,           \* history: number of completed update_game_state calls
    old_cells,      \* history: cells when the current/last update began
    run,            \* history: <<x, y>> -> consecutive generations alive
    accessed,       \* history: coordinates the last action passed to
                    \*          get_cell_state / set_cell_state
    color_calls     \* history: the calculate_color calls of the last action,
                    \*          each with its arguments and its result

vars == <<GRID_WIDTH, GRID_HEIGHT, cells, next_cells, cell_ages, pc, loop_x,
          loop_y, next_state, seed, gens, old_cells, run, accessed,
          color_calls>>

\* ------------------------------------------------------ word arithmetic
RECURSIVE Pow2Rec(_)
Pow2Rec(n) == IF n = 0 THEN 1 ELSE 2 * Pow2Rec(n - 1)

\* The powers of two a word needs, tabulated once.
Pow2Tab == [n \in 0 .. WORD_BITS |-> Pow2Rec(n)]

Pow2(n) == Pow2Tab[n]

\* 1 << bit_offset on a word
Shl1(bit_offset) == Pow2(bit_offset)

RECURSIVE BitAndFrom(_, _, _)
BitAndFrom(a, b, k) ==
    IF k = WORD_BITS THEN 0
    ELSE (IF (a \div Pow2(k)) % 2 = 1 /\ (b \div Pow2(k)) % 2 = 1
             THEN Pow2(k) ELSE 0) + BitAndFrom(a, b, k + 1)

\* a & b
BitAnd(a, b) == BitAndFrom(a, b, 0)

RECURSIVE BitOrFrom(_, _, _)
BitOrFrom(a, b, k) ==
    IF k = WORD_BITS THEN 0
    ELSE (IF (a \div Pow2(k)) % 2 = 1 \/ (b \div Pow2(k)) % 2 = 1
             THEN Pow2(k) ELSE 0) + BitOrFrom(a, b, k + 1)

\* a | b
BitOr(a, b) == BitOrFrom(a, b, 0)

\* !a on a word of WORD_BITS bits
BitNot(a) == (Pow2(WORD_BITS) - 1) - a

\* Rust's % on isize: the remainder takes the sign of the dividend.
RustRem(a, b) == IF a >= 0 THEN a % b ELSE 0 - ((0 - a) % b)

\* ------------------------------------------------------------ the grid
BIT_VEC_SIZE == (GRID_WIDTH * GRID_HEIGHT + (WORD_BITS - 1)) \div WORD_BITS

Coords == (0 .. GRID_WIDTH - 1) \X (0 .. GRID_HEIGHT - 1)

ZeroVec == [i \in 0 .. BIT_VEC_SIZE - 1 |-> 0]

\* bit_index with the height for the row stride.
BitIndex_height_stride(x, y) == y * GRID_HEIGHT + x

\* The three index computations shared by new, get_cell_state, set_cell_state.
BitIndex(x, y) == y * GRID_WIDTH + x
VecIndex(x, y) == BitIndex(x, y) \div WORD_BITS
BitOffset(x, y) == BitIndex(x, y) % WORD_BITS

\* Indexing a Vec outside its length panics.
InBuffer(x, y) == BitIndex(x, y) >= 0 /\ VecIndex(x, y) < BIT_VEC_SIZE

\* get_cell_state(&self, x, y), reading the buffer buf
GetBit(buf, x, y) ==
    IF VecIndex(x, y) \in DOMAIN buf
    THEN BitAnd(buf[VecIndex(x, y)], Shl1(BitOffset(x, y))) # 0
    ELSE FALSE

get_cell_state(x, y) == GetBit(cells, x, y)

\* set_cell_state that only ever sets bits: a dead next state leaves the
\* bit as the buffer had it.
set_cell_state_no_clear(x, y, state) ==
    IF VecIndex(x, y) \in DOMAIN next_cells /\ state
    THEN [next_cells EXCEPT ![VecIndex(x, y)] =
             BitOr(@, Shl1(BitOffset(x, y)))]
    ELSE next_cells

\* set_cell_state that assigns the word (= for |=, = for &=).
set_cell_state_assign(x, y, state) ==
    IF VecIndex(x, y) \in DOMAIN next_cells
    THEN IF state
         THEN [next_cells EXCEPT ![VecIndex(x, y)] = Shl1(BitOffset(x, y))]
         ELSE [next_cells EXCEPT ![VecIndex(x, y)] =
                  BitNot(Shl1(BitOffset(x, y)))]
    ELSE next_cells

\* The body of set_cell_state without its else branch: a dead next state
\* leaves the bit as the buffer had it.
SetBit_no_clear(buf, x, y, state) ==
    IF VecIndex(x, y) \in DOMAIN buf /\ state
    THEN [buf EXCEPT ![VecIndex(x, y)] = BitOr(@, Shl1(BitOffset(x, y)))]
    ELSE buf

\* The body of set_cell_state on the buffer buf: the buffer it leaves.
SetBit(buf, x, y, state) ==
    IF VecIndex(x, y) \in DOMAIN buf
    THEN IF state
         THEN [buf EXCEPT ![VecIndex(x, y)] =
                  BitOr(@, Shl1(BitOffset(x, y)))]
         ELSE [buf EXCEPT ![VecIndex(x, y)] =
                  BitAnd(@, BitNot(Shl1(BitOffset(x, y))))]
    ELSE buf

\* set_cell_state(&mut self, x, y, state): the new value of next_cells
set_cell_state(x, y, state) == SetBit(next_cells, x, y, state)

\* The eight offsets in the order of the dy / dx loops, (0,0) skipped.
Offsets ==
    << <<-1, -1>>, <<0, -1>>, <<1, -1>>,
       <<-1,  0>>,            <<1,  0>>,
       <<-1,  1>>, <<0,  1>>, <<1,  1>> >>

\* nx without the + GRID_WIDTH bias: negative at the left edge.
NeighborX_no_bias(x, d) == RustRem(x + d[1], GRID_WIDTH)

\* nx clamped to the grid instead of wrapped.
NeighborX_clamped(x, d) ==
    IF x + d[1] < 0 THEN 0
    ELSE IF x + d[1] >= GRID_WIDTH THEN GRID_WIDTH - 1 ELSE x + d[1]

\* ny reduced modulo the width instead of the height.
NeighborY_width_modulus(y, d) == RustRem(y + d[2] + GRID_HEIGHT, GRID_WIDTH)

\* nx and ny of one offset d = <<dx, dy>>
NeighborX(x, d) == RustRem(x + d[1] + GRID_WIDTH, GRID_WIDTH)
NeighborY(y, d) == RustRem(y + d[2] + GRID_HEIGHT, GRID_HEIGHT)

\* The loops of count_alive_neighbors from the k-th offset on, reading buf.
RECURSIVE CountIn(_, _, _, _)
CountIn(buf, x, y, k) ==
    IF k > Len(Offsets) THEN 0
    ELSE (IF GetBit(buf, NeighborX(x, Offsets[k]), NeighborY(y, Offsets[k]))
             THEN 1 ELSE 0) + CountIn(buf, x, y, k + 1)

CountFrom(x, y, k) == CountIn(cells, x, y, k)

\* count_alive_neighbors without the skip of (0,0): the cell counts itself.
count_alive_neighbors_with_self(x, y) ==
    CountFrom(x, y, 1) + (IF get_cell_state(x, y) THEN 1 ELSE 0)

count_alive_neighbors(x, y) == CountFrom(x, y, 1)

\* The coordinates count_alive_neighbors(x, y) passes to get_cell_state.
NeighborCalls(x, y) ==
    {<<NeighborX(x, Offsets[k]), NeighborY(y, Offsets[k])>> :
        k \in 1 .. Len(Offsets)}

\* The match with (true, 3) for (_, 3): survival only, no birth.
next_state_rule_no_birth(alive, neighbors) ==
    alive /\ (neighbors = 2 \/ neighbors = 3)

\* match (alive, neighbors) { (true, 2) | (_, 3) => true, _ => false }
next_state_rule(alive, neighbors) ==
    (alive /\ neighbors = 2) \/ neighbors = 3

\* The age bookkeeping without the remove for a dead next state.
update_age_keep_dead(x, y, alive, state) ==
    IF state
    THEN LET entry == IF <<x, y>> \in DOMAIN cell_ages
                      THEN cell_ages[<<x, y>>] ELSE 0
             age == IF ~alive THEN 0 ELSE entry
         IN  [k \in DOMAIN cell_ages \cup {<<x, y>>} |->
                 IF k = <<x, y>> THEN age + 1 ELSE cell_ages[k]]
    ELSE cell_ages

\* The age bookkeeping with the increment for newly born cells only.
update_age_no_increment(x, y, alive, state) ==
    IF state
    THEN LET entry == IF <<x, y>> \in DOMAIN cell_ages
                      THEN cell_ages[<<x, y>>] ELSE 0
         IN  [k \in DOMAIN cell_ages \cup {<<x, y>>} |->
                 IF k = <<x, y>> THEN (IF ~alive THEN 1 ELSE entry)
                 ELSE cell_ages[k]]
    ELSE [k \in DOMAIN cell_ages \ {<<x, y>>} |-> cell_ages[k]]

\* The age bookkeeping of the loop body on the map ages: the map it leaves.
AgeAfter(ages, x, y, alive, state) ==
    IF state
    THEN LET entry == IF <<x, y>> \in DOMAIN ages THEN ages[<<x, y>>] ELSE 0
             age == IF ~alive THEN 0 ELSE entry
         IN  [k \in DOMAIN ages \cup {<<x, y>>} |->
                 IF k = <<x, y>> THEN age + 1 ELSE ages[k]]
    ELSE [k \in DOMAIN ages \ {<<x, y>>} |-> ages[k]]

\* The age bookkeeping of the loop body: the new value of cell_ages
update_age(x, y, alive, state) == AgeAfter(cell_ages, x, y, alive, state)

\* A copy of next_cells into cells in place of the exchange.
mem_swap_copy(a, b) == <<b, b>>

\* std::mem::swap(&mut self.cells, &mut self.next_cells): <<cells', next_cells'>>
mem_swap(a, b) == <<b, a>>

\* ------------------------------------------------ the pass as a function
\* The three fields of the Game.
Game == [cells |-> cells, next_cells |-> next_cells, cell_ages |-> cell_ages]

\* One iteration of the loop body that keeps a single buffer: the new state
\* is written where the old one is read.
VisitCell_in_place(g, c) ==
    LET alive == GetBit(g.cells, c[1], c[2])
        neighbors == CountIn(g.cells, c[1], c[2], 1)
        state == (alive /\ neighbors = 2) \/ neighbors = 3
    IN  [cells |-> SetBit(g.cells, c[1], c[2], state),
         next_cells |-> SetBit(g.cells, c[1], c[2], state),
         cell_ages |-> AgeAfter(g.cell_ages, c[1], c[2], alive, state)]

\* One iteration of the loop body, main.rs:75-92, for the cell c of game g.
VisitCell(g, c) ==
    LET alive == GetBit(g.cells, c[1], c[2])
        neighbors == CountIn(g.cells, c[1], c[2], 1)
        state == next_state_rule(alive, neighbors)
    IN  [cells |-> g.cells,
         next_cells |-> SetBit(g.next_cells, c[1], c[2], state),
         cell_ages |-> AgeAfter(g.cell_ages, c[1], c[2], alive, state)]

\* The loop body run over the cells of order from the k-th on.
RECURSIVE VisitFrom(_, _, _)
VisitFrom(g, order, k) ==
    IF k > Len(order) THEN g
    ELSE VisitFrom(VisitCell(g, order[k]), order, k + 1)

\* update_game_state visiting the cells in the given order, then the swap.
PassOver(g, order) ==
    LET h == VisitFrom(g, order, 1)
    IN  [cells |-> mem_swap(h.cells, h.next_cells)[1],
         next_cells |-> mem_swap(h.cells, h.next_cells)[2],
         cell_ages |-> h.cell_ages]

\* The order of the for loops of update_game_state: y outer, x inner.
RowMajor ==
    [k \in 1 .. GRID_WIDTH * GRID_HEIGHT |->
        <<(k - 1) % GRID_WIDTH, (k - 1) \div GRID_WIDTH>>]

\* ---------------------------------------------------------- Game::new
\* The loops of Game::new from the k-th cell on (x outer, y inner), where
\* live is the set of cells for which rng.gen_bool(0.5) returned true.
RECURSIVE NewCellsFrom(_, _, _)
NewCellsFrom(live, k, acc) ==
    IF k = GRID_WIDTH * GRID_HEIGHT THEN acc
    ELSE LET x == k \div GRID_HEIGHT
             y == k % GRID_HEIGHT
         IN  NewCellsFrom(live, k + 1,
                 IF <<x, y>> \in live
                 THEN [acc EXCEPT ![VecIndex(x, y)] =
                          BitOr(@, Shl1(BitOffset(x, y)))]
                 ELSE acc)

NewCells(live) == NewCellsFrom(live, 0, ZeroVec)

\* cell_ages.insert((x, y), 1) for every cell seeded alive
NewAges(live) == [k \in live |-> 1]

\* The state after Game::new() on a w x h grid with the cells of live alive.
InitGame(w, h, live) ==
    /\ GRID_WIDTH = w
    /\ GRID_HEIGHT = h
    /\ cells = NewCells(live)
    /\ next_cells = ZeroVec
    /\ cell_ages = NewAges(live)
    /\ pc = "idle"
    /\ loop_x = 0
    /\ loop_y = 0
    /\ next_state = FALSE
    /\ seed = cells
    /\ gens = 0
    /\ old_cells = cells
    /\ run = [c \in Coords |-> IF c \in live THEN 1 ELSE 0]
    /\ accessed = {}
    /\ color_calls = {}

\* Every seeding of every grid of at most MaxCells cells.
Init ==
    \E w \in 1 .. MaxDim, h \in 1 .. MaxDim :
        /\ w * h <= MaxCells
        /\ \E live \in SUBSET ((0 .. w - 1) \X (0 .. h - 1)) :
               InitGame(w, h, live)

\* ------------------------------------------------------------ actions
\* update and draw both borrowed: a draw in the middle of a pass.
ExclusiveBorrow_shared == pc \in {"idle", "eval", "set", "swap"}

\* update(&mut self) and draw(&mut self) each borrow the Game exclusively:
\* a handler starts only when no other is running on the Game.
ExclusiveBorrow == pc = "idle"

\* EventHandler::update is entered: update_game_state starts its pass.
UpdateBegin ==
    /\ ExclusiveBorrow
    /\ gens < MaxGen
    /\ pc' = "eval"
    /\ loop_x' = 0
    /\ loop_y' = 0
    /\ old_cells' = cells
    /\ accessed' = {}
    /\ color_calls' = {}
    /\ UNCHANGED <<GRID_WIDTH, GRID_HEIGHT, cells, next_cells, cell_ages,
                   next_state, seed, gens, run>>

\* Loop body, main.rs:75-90: read the cell and its neighbours, decide the
\* next state, keep cell_ages in step.
UpdateEval ==
    /\ pc = "eval"
    /\ LET alive == get_cell_state(loop_x, loop_y)
           neighbors == count_alive_neighbors(loop_x, loop_y)
           state == next_state_rule(alive, neighbors)
           calls == {<<loop_x, loop_y>>} \cup NeighborCalls(loop_x, loop_y)
       IN  /\ accessed' = calls
           /\ IF \A c \in calls : InBuffer(c[1], c[2])
              THEN /\ next_state' = state
                   /\ cell_ages' = update_age(loop_x, loop_y, alive, state)
                   /\ pc' = "set"
              ELSE /\ pc' = "panic"
                   /\ UNCHANGED <<next_state, cell_ages>>
    /\ color_calls' = {}
    /\ UNCHANGED <<GRID_WIDTH, GRID_HEIGHT, cells, next_cells, loop_x, loop_y,
                   seed, gens, old_cells, run>>

\* Loop body, main.rs:92: self.set_cell_state(x, y, next_state), then the
\* for loops advance (x inner, y outer).
UpdateSet ==
    /\ pc = "set"
    /\ accessed' = {<<loop_x, loop_y>>}
    /\ IF InBuffer(loop_x, loop_y)
       THEN /\ next_cells' = set_cell_state(loop_x, loop_y, next_state)
            /\ next_state' = FALSE
            /\ IF loop_x + 1 < GRID_WIDTH
               THEN loop_x' = loop_x + 1 /\ loop_y' = loop_y /\ pc' = "eval"
               ELSE IF loop_y + 1 < GRID_HEIGHT
                    THEN loop_x' = 0 /\ loop_y' = loop_y + 1 /\ pc' = "eval"
                    ELSE loop_x' = 0 /\ loop_y' = 0 /\ pc' = "swap"
       ELSE /\ pc' = "panic"
            /\ UNCHANGED <<next_cells, next_state, loop_x, loop_y>>
    /\ color_calls' = {}
    /\ UNCHANGED <<GRID_WIDTH, GRID_HEIGHT, cells, cell_ages, seed, gens,
                   old_cells, run>>

\* main.rs:96: the buffers are exchanged and update returns.
UpdateSwap ==
    /\ pc = "swap"
    /\ cells' = mem_swap(cells, next_cells)[1]
    /\ next_cells' = mem_swap(cells, next_cells)[2]
    /\ pc' = "idle"
    /\ gens' = gens + 1
    /\ run' = [c \in Coords |->
                  IF GetBit(cells', c[1], c[2]) THEN run[c] + 1 ELSE 0]
    /\ accessed' = {}
    /\ color_calls' = {}
    /\ UNCHANGED <<GRID_WIDTH, GRID_HEIGHT, cell_ages, loop_x, loop_y,
                   next_state, seed, old_cells>>

\* ------------------------------------------------------ calculate_color
\* Colours are records of channels.  A channel is held exactly, in units of
\* 1/25500: the byte given to from_rgb (x/255) times a percentage.  The
\* f32 rounding of the source is not modelled; it does not move the two
\* comparisons: 4 * 0.05f32 is 0.2f32 exactly and 3 * 0.05f32 is below it.
active_color == [r |-> 236, g |-> 68, b |-> 155]
stable_color == [r |-> 153, g |-> 244, b |-> 67]
max_active_age == 10

\* (neighbors as f32 * 0.05).min(0.2), in hundredths
Darkening(neighbors) == IF neighbors * 5 < 20 THEN neighbors * 5 ELSE 20

\* calculate_color with < for <= in the age test.
calculate_color_strict_age(age, neighbors) ==
    LET color == IF age < max_active_age THEN active_color ELSE stable_color
        brightness_factor == 100 - Darkening(neighbors)
    IN  [r |-> color.r * brightness_factor,
         g |-> color.g * brightness_factor,
         b |-> color.b * brightness_factor,
         a |-> 255 * 100]

\* calculate_color(age, neighbors)
calculate_color(age, neighbors) ==
    LET color == IF age <= max_active_age THEN active_color ELSE stable_color
        brightness_factor == 100 - Darkening(neighbors)
    IN  [r |-> color.r * brightness_factor,
         g |-> color.g * brightness_factor,
         b |-> color.b * brightness_factor,
         a |-> 255 * 100]

\* One call of calculate_color as color_calls records it.
ColorCall(age, neighbors) ==
    [age |-> age, neighbors |-> neighbors,
     color |-> calculate_color(age, neighbors)]

\* draw without the `if let Some(age)`: every cell of the grid is drawn, a
\* dead one with age 0.
DrawnCells_all_cells ==
    {<<c, IF c \in DOMAIN cell_ages THEN cell_ages[c] ELSE 0,
       count_alive_neighbors(c[1], c[2])>> : c \in Coords}

\* What one draw call puts on screen: for every key of cell_ages, the cell,
\* its age and its neighbour count.
DrawnCells ==
    {<<c, cell_ages[c], count_alive_neighbors(c[1], c[2])>> :
        c \in Coords \cap DOMAIN cell_ages}

\* The coordinates one draw call passes to get_cell_state.
DrawCalls ==
    UNION {NeighborCalls(c[1], c[2]) : c \in Coords \cap DOMAIN cell_ages}

\* EventHandler::draw: reads the game, changes none of it.
Draw ==
    /\ ExclusiveBorrow
    /\ accessed' = DrawCalls
    /\ color_calls' = {ColorCall(d[2], d[3]) : d \in DrawnCells}
    /\ pc' = IF \A c \in DrawCalls : InBuffer(c[1], c[2])
             THEN "idle" ELSE "panic"
    /\ UNCHANGED <<GRID_WIDTH, GRID_HEIGHT, cells, next_cells, cell_ages,
                   loop_x, loop_y, next_state, seed, gens, old_cells, run>>

Next == UpdateBegin \/ UpdateEval \/ UpdateSet \/ UpdateSwap \/ Draw

Spec == Init /\ [][Next]_vars

\* EventHandler::update as a single step: the whole of update_game_state,
\* the row-major pass and the swap.
Update ==
    /\ ExclusiveBorrow
    /\ gens < MaxGen
    /\ LET r == PassOver(Game, RowMajor)
       IN  /\ cells' = r.cells
           /\ next_cells' = r.next_cells
           /\ cell_ages' = r.cell_ages
    /\ old_cells' = cells
    /\ gens' = gens + 1
    /\ run' = [c \in Coords |->
                  IF GetBit(cells', c[1], c[2]) THEN run[c] + 1 ELSE 0]
    /\ accessed' = {}
    /\ color_calls' = {}
    /\ UNCHANGED <<GRID_WIDTH, GRID_HEIGHT, pc, loop_x, loop_y, next_state,
                   seed>>

\* The game stepped by whole updates.
SpecPass == Init /\ [][Update]_vars

\* ------------------------------------------------ reference definitions
\* Conway's rule and the torus, stated on sets of live coordinates and
\* independently of the packed buffers' code.

\* Bit i of a packed buffer, by arithmetic on the word.
BitOf(buf, i) == (buf[i \div WORD_BITS] \div Pow2(i % WORD_BITS)) % 2 = 1

\* The live coordinates a buffer encodes.
LiveOf(buf) == {c \in Coords : BitOf(buf, c[2] * GRID_WIDTH + c[1])}

\* ceil(width * height / WORD_BITS)
CeilWords ==
    CHOOSE n \in 0 .. GRID_WIDTH * GRID_HEIGHT :
        /\ n * WORD_BITS >= GRID_WIDTH * GRID_HEIGHT
        /\ (n - 1) * WORD_BITS < GRID_WIDTH * GRID_HEIGHT

RECURSIVE PackWord(_, _, _)
PackWord(live, i, k) ==
    IF k = WORD_BITS THEN 0
    ELSE LET idx == i * WORD_BITS + k
             c == <<idx % GRID_WIDTH, idx \div GRID_WIDTH>>
         IN  (IF c \in live THEN Pow2(k) ELSE 0) + PackWord(live, i, k + 1)

\* The packed buffer of a set of live coordinates, padding bits zero.
Pack(live) == [i \in 0 .. CeilWords - 1 |-> PackWord(live, i, 0)]

OffsetSet == ({-1, 0, 1} \X {-1, 0, 1}) \ {<<0, 0>>}

\* The torus neighbour of c at offset d.
Wrap(c, d) ==
    <<(c[1] + d[1] + GRID_WIDTH) % GRID_WIDTH,
      (c[2] + d[2] + GRID_HEIGHT) % GRID_HEIGHT>>

\* Number of the 8 offsets whose wrapped cell is in live.
RefCount(live, c) == Cardinality({d \in OffsetSet : Wrap(c, d) \in live})

\* B3/S23
B3S23(alive, n) == (alive /\ (n = 2 \/ n = 3)) \/ (~alive /\ n = 3)

RefStep(live) == {c \in Coords : B3S23(c \in live, RefCount(live, c))}

RECURSIVE RefIter(_, _)
RefIter(live, n) == IF n = 0 THEN live ELSE RefStep(RefIter(live, n - 1))

\* Between steps: no update_game_state call is in progress.
BetweenSteps == pc = "idle"

\* ---------------------------------------------------------------- C1
\* C1: after one update_game_state, every cell is alive exactly when B3/S23
\* says so for its state and live-neighbour count in the generation before
\* the step; the code's match agrees with the rule table for every alive
\* and every n in 0..8.
C1_RuleTable ==
    /\ \A a \in BOOLEAN, n \in 0 .. 8 : next_state_rule(a, n) = B3S23(a, n)
    /\ (BetweenSteps /\ gens > 0) =>
           \A c \in Coords :
               (c \in LiveOf(cells)) <=>
                   B3S23(c \in LiveOf(old_cells),
                         RefCount(LiveOf(old_cells), c))

\* A step has run in which one cell was born, one survived on 2 neighbours
\* and one died of overcrowding.
C1_Witness ==
    /\ BetweenSteps /\ gens > 0
    /\ \E c \in Coords : c \notin LiveOf(old_cells) /\ c \in LiveOf(cells)
    /\ \E c \in Coords :
           /\ c \in LiveOf(old_cells) /\ c \in LiveOf(cells)
           /\ RefCount(LiveOf(old_cells), c) = 2
    /\ \E c \in Coords :
           /\ c \in LiveOf(old_cells) /\ c \notin LiveOf(cells)
           /\ RefCount(LiveOf(old_cells), c) >= 4

\* ---------------------------------------------------------------- C2
\* C2: for every cell of every grid state, count_alive_neighbors(x, y) is
\* the number of the 8 offsets whose torus-wrapped cell is alive in cells,
\* it lies in 0..8, and the cells counted for (0,0) include (W-1,H-1),
\* (W-1,0) and (0,H-1).  (cells changes only at construction and at the
\* swap, so every value it takes is met between steps.)
C2_ToroidalCount ==
    BetweenSteps =>
        /\ LET live == LiveOf(cells)
           IN  \A c \in Coords :
                   LET n == count_alive_neighbors(c[1], c[2])
                   IN  n = RefCount(live, c) /\ n \in 0 .. 8
        /\ {<<GRID_WIDTH - 1, GRID_HEIGHT - 1>>, <<GRID_WIDTH - 1, 0>>,
            <<0, GRID_HEIGHT - 1>>} \subseteq NeighborCalls(0, 0)

\* draw has just counted the neighbours of (0,0) on a grid of at least 3x3
\* where (0,0) and exactly the three cells diagonally and straight across
\* the edges are alive.
C2_Witness ==
    /\ BetweenSteps /\ accessed # {}
    /\ GRID_WIDTH >= 3 /\ GRID_HEIGHT >= 3
    /\ LiveOf(cells) = {<<0, 0>>, <<GRID_WIDTH - 1, GRID_HEIGHT - 1>>,
                        <<GRID_WIDTH - 1, 0>>, <<0, GRID_HEIGHT - 1>>}
    /\ count_alive_neighbors(0, 0) = 3

\* ---------------------------------------------------------------- C3
\* C3: between steps, the key set of cell_ages is exactly the set of
\* coordinates alive in cells.
C3_AgeKeysAreLive == BetweenSteps => DOMAIN cell_ages = LiveOf(cells)

\* A step has run in which a cell died and another was born.
C3_Witness ==
    /\ BetweenSteps /\ gens > 0
    /\ \E c \in Coords : c \in LiveOf(old_cells) /\ c \notin DOMAIN cell_ages
    /\ \E c \in Coords : c \notin LiveOf(old_cells) /\ c \in DOMAIN cell_ages

\* ---------------------------------------------------------------- C4
\* C4: between steps, the age of a live cell is the number of consecutive
\* generations, ending with the current one, in which it has been alive
\* (1 at construction, 1 again after a death and rebirth).
C4_AgeIsRunLength ==
    BetweenSteps =>
        \A c \in LiveOf(cells) :
            c \in DOMAIN cell_ages /\ cell_ages[c] = run[c] /\ run[c] >= 1

\* A cell seeded alive has died and been reborn (age 1 again) while another
\* has lived through every generation.
C4_Witness ==
    /\ BetweenSteps /\ gens >= 2
    /\ \E c \in LiveOf(seed) \cap LiveOf(cells) :
           c \notin LiveOf(old_cells) /\ cell_ages[c] = 1
    /\ \E c \in LiveOf(cells) : cell_ages[c] = gens + 1

\* ---------------------------------------------------------------- C5
\* The 2x2 block with its top-left cell at (bx, by), wrapping at the edges.
BlockAt(w, h, bx, by) ==
    {<<bx, by>>, <<(bx + 1) % w, by>>,
     <<bx, (by + 1) % h>>, <<(bx + 1) % w, (by + 1) % h>>}

\* A block, anywhere, on an otherwise empty grid of at least 4x4.
InitBlock ==
    \E w \in 4 .. MaxPatternDim, h \in 4 .. MaxPatternDim :
        \E bx \in 0 .. w - 1, by \in 0 .. h - 1 :
            InitGame(w, h, BlockAt(w, h, bx, by))

SpecBlock == InitBlock /\ [][Next]_vars

\* C5: a 2x2 block on an otherwise empty grid of at least 4x4 is a still
\* life: whatever its placement and however many steps have run, the live
\* cells are the initial ones.
C5_BlockIsStill == LiveOf(cells) = LiveOf(seed)

\* Two steps have run on a block that straddles both wrap edges.
C5_Witness ==
    /\ BetweenSteps /\ gens >= 2
    /\ LiveOf(seed) = {<<0, 0>>, <<GRID_WIDTH - 1, 0>>,
                       <<0, GRID_HEIGHT - 1>>,
                       <<GRID_WIDTH - 1, GRID_HEIGHT - 1>>}
    /\ LiveOf(cells) = LiveOf(seed)

\* ---------------------------------------------------------------- C6
\* The horizontal triple starting at (bx, by), wrapping at the edge.
BlinkerAt(w, bx, by) == {<<bx, by>>, <<(bx + 1) % w, by>>, <<(bx + 2) % w, by>>}

\* A horizontal triple, anywhere, on an otherwise empty grid wide enough to
\* hold three distinct cells in a row; no other restriction on the size.
InitBlinker ==
    \E w \in 3 .. MaxPatternDim, h \in 1 .. MaxPatternDim :
        \E bx \in 0 .. w - 1, by \in 0 .. h - 1 :
            InitGame(w, h, BlinkerAt(w, bx, by))

SpecBlinker == InitBlinker /\ [][Next]_vars

\* The blinker's period is exactly 2: changed after 1 step, back after 2.
PeriodTwo ==
    /\ (BetweenSteps /\ gens = 1) => LiveOf(cells) # LiveOf(seed)
    /\ (BetweenSteps /\ gens = 2) => LiveOf(cells) = LiveOf(seed)

C7_Deterministic ==
    BetweenSteps => cells = Pack(RefIter(LiveOf(seed), gens))

\* MaxGen steps have run on a seed whose every generation so far differs
\* from the one before.
C7_Witness ==
    /\ BetweenSteps /\ gens = MaxGen
    /\ cells # seed /\ cells # old_cells /\ old_cells # seed
    /\ LiveOf(cells) # {}

\* ---------------------------------------------------------------- C8
\* Valid arguments of get_cell_state / set_cell_state.
InRange(c) ==
    /\ 0 <= c[1] /\ c[1] < GRID_WIDTH
    /\ 0 <= c[2] /\ c[2] < GRID_HEIGHT
    /\ (c[2] * GRID_WIDTH + c[1]) \div WORD_BITS < BIT_VEC_SIZE
    /\ (c[2] * GRID_WIDTH + c[1]) \div WORD_BITS < Cardinality(DOMAIN cells)
    /\ (c[2] * GRID_WIDTH + c[1]) \div WORD_BITS
           < Cardinality(DOMAIN next_cells)

\* C8: no out-of-range access: every coordinate update_game_state,
\* count_alive_neighbors and draw pass to get_cell_state / set_cell_state
\* is inside the grid (nx, ny never negative), its word index is below the
\* length of both buffers, and no access panics.
C8_AccessInRange ==
    /\ pc # "panic"
    /\ \A c \in accessed : InRange(c)

\* The pass has just evaluated the cell in the bottom-right corner of a grid
\* of at least 3x3 whose last word is a further word: its neighbours wrapped
\* to column 0 and row 0, and it read the last word of the buffer.
C8_Witness ==
    /\ pc = "set"
    /\ loop_x = GRID_WIDTH - 1 /\ loop_y = GRID_HEIGHT - 1
    /\ GRID_WIDTH >= 3 /\ GRID_HEIGHT >= 3
    /\ {<<0, 0>>, <<0, loop_y>>, <<loop_x, 0>>, <<loop_x, loop_y>>}
           \subseteq accessed
    /\ Cardinality(accessed) = 9
    /\ (loop_y * GRID_WIDTH + loop_x) \div WORD_BITS
           = Cardinality(DOMAIN cells) - 1
    /\ Cardinality(DOMAIN cells) >= 2

\* ---------------------------------------------------------------- C9
\* All bit positions of a buffer, padding included.
BitPositions == 0 .. Cardinality(DOMAIN next_cells) * WORD_BITS - 1

\* What a set_cell_state step may change: bit y*GRID_WIDTH+x of next_cells,
\* which becomes next_state, and nothing else of the game.
SetCellFrame ==
    pc = "set" =>
        /\ cells' = cells
        /\ cell_ages' = cell_ages
        /\ DOMAIN next_cells' = DOMAIN next_cells
        /\ \A i \in BitPositions :
               BitOf(next_cells', i) =
                   IF i = loop_y * GRID_WIDTH + loop_x
                   THEN next_state ELSE BitOf(next_cells, i)

\* No step of the pass before the swap changes cells.
PassKeepsCells == pc \in {"eval", "set"} => cells' = cells

\* C9: set_cell_state(x, y, state) changes only bit y*GRID_WIDTH+x of
\* next_cells, setting it to state; cells and cell_ages are untouched, and
\* cells is not modified anywhere in the pass before the final swap.
C9_SetCellFrame == [][SetCellFrame /\ PassKeepsCells]_vars

\* A second pass has finished writing: set_cell_state cleared a bit that
\* was still set from the seed generation and set one that was clear, while
\* cells still holds the generation the pass started from.
C9_Witness ==
    /\ pc = "swap" /\ gens = 1
    /\ cells = old_cells
    /\ \E c \in LiveOf(seed) : c \notin LiveOf(next_cells)
    /\ \E c \in LiveOf(next_cells) : c \notin LiveOf(seed)

\* --------------------------------------------------------------- C10
\* C10: the step exchanges the buffers without reallocating: right after a
\* step next_cells holds exactly the words cells held before it, cells
\* holds the newly computed generation, and both buffers always have
\* BIT_VEC_SIZE = ceil(width*height / WORD_BITS) words.
C10_SwapExchanges ==
    /\ BIT_VEC_SIZE = CeilWords
    /\ DOMAIN cells = 0 .. BIT_VEC_SIZE - 1
    /\ DOMAIN next_cells = 0 .. BIT_VEC_SIZE - 1
    /\ (BetweenSteps /\ gens > 0) =>
           /\ next_cells = old_cells
           /\ cells = Pack(RefStep(LiveOf(old_cells)))

\* A step has run on a grid whose buffers have several words, the last one
\* partly padding, and the two generations differ.
C10_Witness ==
    /\ BetweenSteps /\ gens > 0
    /\ BIT_VEC_SIZE >= 2
    /\ (GRID_WIDTH * GRID_HEIGHT) % WORD_BITS # 0
    /\ next_cells = old_cells
    /\ cells # next_cells
    /\ LiveOf(cells) # {}

\* --------------------------------------------------------------- C11
\* cells is one complete generation (the gens-th of the seed, no cell of
\* another generation mixed in) and cell_ages belongs to that generation.
OneGeneration ==
    /\ cells = Pack(RefIter(LiveOf(seed), gens))
    /\ DOMAIN cell_ages = LiveOf(cells)
    /\ \A c \in DOMAIN cell_ages : cell_ages[c] = run[c]

\* C11: a step is atomic to the reader: draw and update only ever run one
\* after the other, so whenever draw reads, cells is one complete
\* generation and cell_ages matches that same generation, although
\* cell_ages is updated in place, cell by cell, during the pass.
C11_DrawSeesOneGeneration == [][Draw => OneGeneration]_vars

\* draw has just read the game after a step that changed both the live
\* cells and the ages: a cell died, a cell was born, a cell grew older.
C11_Witness ==
    /\ BetweenSteps /\ accessed # {} /\ gens > 0
    /\ OneGeneration
    /\ \E c \in LiveOf(old_cells) : c \notin DOMAIN cell_ages
    /\ \E c \in DOMAIN cell_ages : c \notin LiveOf(old_cells)
    /\ \E c \in DOMAIN cell_ages : cell_ages[c] >= 2

\* --------------------------------------------------------------- C12
\* Every sequence that lists each element of S once.
RECURSIVE Perms(_)
Perms(S) ==
    IF S = {} THEN {<<>>}
    ELSE UNION {{<<c>> \o p : p \in Perms(S \ {c})} : c \in S}

\* Row-major backwards, and the x-outer order of Game::new.
Reversed ==
    [k \in 1 .. GRID_WIDTH * GRID_HEIGHT |->
        RowMajor[GRID_WIDTH * GRID_HEIGHT + 1 - k]]
ColumnMajor ==
    [k \in 1 .. GRID_WIDTH * GRID_HEIGHT |->
        <<(k - 1) \div GRID_HEIGHT, (k - 1) % GRID_HEIGHT>>]

\* The visiting orders tried: all of them on grids of at most MaxOrderCells
\* cells, two on the larger ones.
OrdersTried ==
    IF GRID_WIDTH * GRID_HEIGHT <= MaxOrderCells
    THEN Perms(Coords) ELSE {Reversed, ColumnMajor}

\* A pass over the game in any of the orders tried, swap included, gives
\* the game the update leaves.
UpdateAnyOrder == \A order \in OrdersTried : PassOver(Game, order) = Game'

\* C12: the per-cell evaluations of a pass commute: whenever the program
\* updates the game, a pass that visits the cells in any other order would
\* leave the same cells, next_cells and cell_ages as the update does.
C12_VisitsCommute == [][Update => UpdateAnyOrder]_vars

\* The second update has run on a grid with both dimensions above one: it
\* started with next_cells and cell_ages holding earlier data, and it set
\* and cleared bits, and removed, created and incremented ages.
C12_Witness ==
    /\ gens = 2
    /\ GRID_WIDTH >= 2 /\ GRID_HEIGHT >= 2
    /\ \E c \in LiveOf(next_cells) : c \notin LiveOf(cells)
    /\ \E c \in LiveOf(cells) : c \notin LiveOf(next_cells)
    /\ \E c \in DOMAIN cell_ages : cell_ages[c] >= 2
    /\ \E c \in DOMAIN cell_ages : cell_ages[c] = 1

\* --------------------------------------------------------------- C13
\* The bit positions of a buffer beyond the last cell of the grid.
PaddingBits ==
    GRID_WIDTH * GRID_HEIGHT .. Cardinality(DOMAIN cells) * WORD_BITS - 1

\* C13: the padding bits of the last word are never read by get_cell_state
\* and never written by Game::new or set_cell_state: every access is to a
\* bit index below width*height, and the padding bits are 0 in cells and in
\* next_cells in every reachable state.
C13_PaddingStaysZero ==
    /\ \A c \in accessed :
           /\ c[2] * GRID_WIDTH + c[1] >= 0
           /\ c[2] * GRID_WIDTH + c[1] < GRID_WIDTH * GRID_HEIGHT
    /\ DOMAIN next_cells = DOMAIN cells
    /\ \A i \in PaddingBits : ~BitOf(cells, i) /\ ~BitOf(next_cells, i)

\* On a grid of several words whose last word is partly padding, a step has
\* just written the last cell of the grid, next to the padding, alive into
\* what is now cells; it is dead in the other buffer, and the last word of
\* each buffer holds live cells.
C13_Witness ==
    /\ BetweenSteps /\ gens > 0
    /\ PaddingBits # {} /\ Cardinality(DOMAIN cells) >= 2
    /\ <<GRID_WIDTH - 1, GRID_HEIGHT - 1>> \in LiveOf(cells)
    /\ <<GRID_WIDTH - 1, GRID_HEIGHT - 1>> \notin LiveOf(next_cells)
    /\ next_cells[Cardinality(DOMAIN cells) - 1] # 0

\* --------------------------------------------------------------- C14
\* The live generation as a frame: every live cell of cells with its age
\* and the number of its live torus neighbours.
LiveFrame ==
    {<<c, cell_ages[c], RefCount(LiveOf(cells), c)>> :
        c \in LiveOf(cells) \cap DOMAIN cell_ages}

\* What a draw step does to the game and what it shows.
DrawEffect ==
    /\ cells' = cells
    /\ next_cells' = next_cells
    /\ cell_ages' = cell_ages
    /\ {d[1] : d \in DrawnCells} = LiveOf(cells)
    /\ DrawnCells = LiveFrame
    /\ color_calls' = {ColorCall(d[2], d[3]) : d \in LiveFrame}

\* C14: draw is read-only and shows exactly the live generation: it leaves
\* cells, next_cells and cell_ages unchanged, and the cells it draws (the
\* keys of cell_ages) are exactly the cells alive in cells, each drawn with
\* its current age and its neighbour count in cells.
C14_DrawShowsLiveCells == [][Draw => DrawEffect]_vars

\* draw has just shown a generation reached by two steps, in which some
\* cells are dead, one is newly born and one has lived from the seed on.
C14_Witness ==
    /\ BetweenSteps /\ gens = 2
    /\ color_calls # {}
    /\ LiveOf(cells) # Coords
    /\ Cardinality(color_calls) >= 2
    /\ \E d \in DrawnCells : d[2] = 1
    /\ \E d \in DrawnCells : d[2] = 3 /\ d[3] \in {2, 3}

\* --------------------------------------------------------------- C15
\* Contents to put in the scratch buffer in place of its own when a pass
\* starts: no cell, every cell, and its own with every cell bit flipped.
StaleSamples == {ZeroVec, Pack(Coords), Pack(Coords \ LiveOf(next_cells))}

\* The update writes the next generation of cells and nothing else, and a
\* pass started with any of the sample scratch buffers gives the game the
\* update leaves.
UpdateIgnoresScratch ==
    /\ cells' = Pack(RefStep(LiveOf(cells)))
    /\ \A nb \in StaleSamples :
           PassOver([Game EXCEPT !.next_cells = nb], RowMajor) = Game'

\* C15: the state after update_game_state does not depend on what
\* next_cells held before the step.  The pass writes each of the
\* width*height cell bits of next_cells, so whenever the program updates
\* the game, the buffer it has written is the packing of the next
\* generation of the one read, and the update ends in the same state
\* whatever the scratch buffer is replaced with.
C15_StaleBitsOverwritten == [][Update => UpdateIgnoresScratch]_vars

\* The second update has run: its scratch buffer went in holding the seed
\* generation, and a cell alive in the seed generation, dead in the
\* generation read and dead in the one written has had its stale bit
\* cleared while other bits of the buffer are set.
C15_Witness ==
    /\ gens = 2
    /\ cells # ZeroVec
    /\ \E c \in LiveOf(seed) :
           c \notin LiveOf(next_cells) /\ c \notin LiveOf(cells)

\* --------------------------------------------------------------- C16
\* A call of calculate_color on its own, with any age a live cell can have
\* up to MaxAge and any neighbour count.
CalculateColor ==
    /\ \E age \in 1 .. MaxAge, neighbors \in 0 .. 8 :
           color_calls' = {ColorCall(age, neighbors)}
    /\ UNCHANGED <<GRID_WIDTH, GRID_HEIGHT, cells, next_cells, cell_ages, pc,
                   loop_x, loop_y, next_state, seed, gens, old_cells, run,
                   accessed>>

\* calculate_color called with every pair of arguments, beside a game that
\* is not stepped.
SpecColor == InitBlock /\ [][CalculateColor]_vars

\* The darkening the claim lists, in percent.
DarkeningTable ==
    [n \in 0 .. 8 |->
        CASE n = 0 -> 0 [] n = 1 -> 5 [] n = 2 -> 10 [] n = 3 -> 15
          [] OTHER -> 20]

\* The colour the claim describes for one call.
ExpectedColor(age, neighbors) ==
    LET base == IF age <= 10 THEN [r |-> 236, g |-> 68, b |-> 155]
                ELSE [r |-> 153, g |-> 244, b |-> 67]
        keep == 100 - DarkeningTable[neighbors]
    IN  [r |-> base.r * keep, g |-> base.g * keep, b |-> base.b * keep,
         a |-> 25500]

\* C16: calculate_color(age, neighbors) takes the active base colour exactly
\* when age <= 10 and the stable one otherwise, darkens every channel by
\* min(neighbors * 0.05, 0.2), that is by 0, 5, 10, 15 percent for 0..3
\* neighbours and by 20 percent for 4..8, and returns an opaque colour.
C16_ColorTable ==
    \A call \in color_calls :
        call.color = ExpectedColor(call.age, call.neighbors)

\* calculate_color has just been called for a cell one generation past the
\* threshold with more than four neighbours: stable colour, 20 percent off.
C16_Witness ==
    \E call \in color_calls :
        /\ call.age = 11 /\ call.neighbors = 5
        /\ call.color = [r |-> 153 * 80, g |-> 244 * 80, b |-> 67 * 80,
                         a |-> 25500]

====
